---------------------------- MODULE Spec2Model ----------------------------
(***************************************************************************)
(* A model of uniqueint.py: the UniqueInt class (strip, is_integer,       *)
(* processLine, readUniqueIntegers, partition, quicksort, processFile)     *)
(* and the batch loop of __main__.                                         *)
(*                                                                         *)
(* A Python string is a sequence of characters; a character is a one       *)
(* character TLA+ string, except the two non-ASCII characters the model    *)
(* carries, which are named by their code point:                           *)
(*   "U+0663"  ARABIC-INDIC DIGIT THREE  (str.isdigit, str.isdecimal)      *)
(*   "U+00B2"  SUPERSCRIPT TWO           (str.isdigit, not str.isdecimal)  *)
(***************************************************************************)
EXTENDS Integers, Sequences, FiniteSets, TLC

VARIABLES
    entry,       \* the function the run entered at: "__main__" or one function
    pc,          \* where the program (or the function under study) stands
    line,        \* processLine: the raw line handed to it
    ret,         \* what the function under study produced
    inputDir,    \* the folder "inputs": whether it exists, and its files
    outputDir,   \* the folder "outputs": whether it exists, and its files
    outputDir0,  \* the folder "outputs" as it was when the program started
    todo,        \* __main__: the entries of os.listdir not yet iterated
    filename,    \* __main__: the entry being processed
    total_files_processed,
    exitCode,    \* the process's exit status, once it has exited
    printed,     \* the messages printed so far
    calls,       \* the input files handed to processFile so far
    pos,         \* readUniqueIntegers: lines of the file read so far
    unique_dict, \* readUniqueIntegers: the dictionary's keys, in insertion order
    integers,    \* processFile / quicksort / partition: the list (arr)
    arr0,        \* quicksort or partition called on its own: the list as handed in
    stack,       \* the quicksort frames, innermost last
    wr           \* processFile: lines written to the output file so far

vars == <<entry, pc, line, ret, inputDir, outputDir, outputDir0, todo, filename,
          total_files_processed, exitCode, printed, calls, pos, unique_dict,
          integers, arr0, stack, wr>>

(***************************************************************************)
(* Characters                                                              *)
(***************************************************************************)
AsciiDigits == {"0", "1", "2", "3", "4", "5", "6", "7", "8", "9"}

\* Characters c with c.isdigit() and c.isdecimal(), other than 0..9: int()
\* reads them by their decimal value.
UnicodeDecimalDigits == {"U+0663"}

\* Characters c with c.isdigit() but not c.isdecimal(): int() rejects them.
UnicodeOtherDigits == {"U+00B2"}

DigitValue(c) ==
    CASE c = "0" -> 0 [] c = "1" -> 1 [] c = "2" -> 2 [] c = "3" -> 3
      [] c = "4" -> 4 [] c = "5" -> 5 [] c = "6" -> 6 [] c = "7" -> 7
      [] c = "8" -> 8 [] c = "9" -> 9 [] c = "U+0663" -> 3

\* str.isdigit() of one character
IsDigitChar(c) == c \in AsciiDigits \cup UnicodeDecimalDigits \cup UnicodeOtherDigits

\* s.isdigit(): every character is a digit and there is at least one
IsDigit(s) == Len(s) > 0 /\ \A k \in 1..Len(s) : IsDigitChar(s[k])

(***************************************************************************)
(* What a call produces: a value, None, or a raised exception.             *)
(***************************************************************************)
None == [kind |-> "None", val |-> 0]
Value(v) == [kind |-> "int", val |-> v]
ValueError == [kind |-> "ValueError", val |-> 0]

(***************************************************************************)
(* UniqueInt.strip                                                         *)
(***************************************************************************)
space_characters == {" ", "\t", "\n"}

\* while i < len(s) and (s[i] in space_characters): i += 1     (0-based i)
RECURSIVE StripLead(_, _)
StripLead(s, i) ==
    IF i < Len(s) /\ s[i + 1] \in space_characters THEN StripLead(s, i + 1) ELSE i

\* while j >= 0 and (s[j] in space_characters): j -= 1         (0-based j)
RECURSIVE StripTrail(_, _)
StripTrail(s, j) ==
    IF j >= 0 /\ s[j + 1] \in space_characters THEN StripTrail(s, j - 1) ELSE j

\* for k in range(i, j + 1): result += s[k]
Strip(s) ==
    LET i == StripLead(s, 0)
        j == StripTrail(s, Len(s) - 1)
    IN  IF i > j THEN <<>> ELSE SubSeq(s, i + 1, j + 1)

(***************************************************************************)
(* UniqueInt.is_integer (its argument is never empty: processLine returns  *)
(* before the call when the stripped line is empty)                        *)
(***************************************************************************)
IsInteger(s) ==
    IF s[1] \in {"-", "+"} THEN IsDigit(Tail(s)) ELSE IsDigit(s)

(***************************************************************************)
(* int(s) on the strings is_integer lets through: an optional sign and one *)
(* or more isdigit characters.  int() takes decimal digits only, so a      *)
(* digit that is not a decimal raises ValueError.                          *)
(***************************************************************************)
RECURSIVE DigitsValue(_, _)
DigitsValue(d, acc) ==
    IF d = <<>> THEN acc ELSE DigitsValue(Tail(d), 10 * acc + DigitValue(Head(d)))

IntOf(s) ==
    LET signed == s[1] \in {"-", "+"}
        d      == IF signed THEN Tail(s) ELSE s
    IN  IF \E k \in 1..Len(d) : d[k] \in UnicodeOtherDigits
        THEN ValueError
        ELSE Value(IF s[1] = "-" THEN -DigitsValue(d, 0) ELSE DigitsValue(d, 0))

(***************************************************************************)
(* UniqueInt.processLine                                                   *)
(***************************************************************************)
MinInteger == -1023
MaxInteger == 1024

InRange(integer) == integer >= MinInteger /\ integer <= MaxInteger

ProcessLine(l) ==
    LET stripped_line == Strip(l)
    IN  IF stripped_line = <<>> THEN None
        ELSE IF IsInteger(stripped_line)
             THEN LET integer == IntOf(stripped_line)
                  IN  IF integer.kind = "ValueError" THEN ValueError
                      ELSE IF InRange(integer.val) THEN integer
                      ELSE None
             ELSE None

(***************************************************************************)
(* str(integer): the decimal digits, a leading "-" for a negative value    *)
(***************************************************************************)
DigitChar(d) ==
    CASE d = 0 -> "0" [] d = 1 -> "1" [] d = 2 -> "2" [] d = 3 -> "3"
      [] d = 4 -> "4" [] d = 5 -> "5" [] d = 6 -> "6" [] d = 7 -> "7"
      [] d = 8 -> "8" [] d = 9 -> "9"

RECURSIVE NatStr(_)
NatStr(n) ==
    IF n < 10 THEN <<DigitChar(n)>> ELSE Append(NatStr(n \div 10), DigitChar(n % 10))

StrOf(n) == IF n < 0 THEN <<"-">> \o NatStr(-n) ELSE NatStr(n)

(***************************************************************************)
(* Lists are Python lists: arr[k] is the element at 0-based index k.       *)
(***************************************************************************)
At(arr, k) == arr[k + 1]

\* arr[a], arr[b] = arr[b], arr[a]
Swap(arr, a, b) == [arr EXCEPT ![a + 1] = arr[b + 1], ![b + 1] = arr[a + 1]]

(***************************************************************************)
(* UniqueInt.partition.  The loop "for j in range(low, high)" runs its     *)
(* body for j = low, ..., high - 1 in order on the loop state (arr, i);    *)
(* PartitionLoop runs it for j = lo, ..., hi by running the first half of  *)
(* the range and then the second half on the state h the first half        *)
(* leaves.                                                                 *)
(***************************************************************************)
\* GoesLeft with "<" for "<="
GoesLeftStrict(x, pivot) == x < pivot

\* if arr[j] <= pivot
GoesLeft(x, pivot) == x <= pivot

PartitionBody(st, pivot, j) ==
    IF GoesLeft(At(st.arr, j), pivot)
    THEN [arr |-> Swap(st.arr, st.i + 1, j), i |-> st.i + 1]
    ELSE st

RECURSIVE PartitionLoop(_, _, _, _)
PartitionLoop(st, pivot, lo, hi) ==
    IF lo > hi THEN st
    ELSE IF lo = hi THEN PartitionBody(st, pivot, lo)
    ELSE LET mid == (lo + hi) \div 2
         IN  CHOOSE r \in { PartitionLoop(h, pivot, mid + 1, hi) :
                                h \in {PartitionLoop(st, pivot, lo, mid)} } : TRUE

\* The list partition leaves and the index it returns.
Partition(arr, low, high) ==
    LET pivot == At(arr, high)
        st    == PartitionLoop([arr |-> arr, i |-> low - 1], pivot, low, high - 1)
    IN  [arr |-> Swap(st.arr, st.i + 1, high), pi |-> st.i + 1]

(***************************************************************************)
(* UniqueInt.quicksort, as the stack of its frames.  A frame holds the     *)
(* call's low and high, pi once partition has returned, and where the call *)
(* stands: "enter" (just called), "left" (inside the first recursive       *)
(* call), "right" (inside the second).                                     *)
(*                                                                         *)
(* CPython bounds the depth of the call stack by sys.getrecursionlimit(),  *)
(* 1000 unless the program sets it (uniqueint.py does not): a call that    *)
(* would make the stack RecursionLimit frames deep raises RecursionError.  *)
(***************************************************************************)
RecursionLimit == 1000

RecursionError == [kind |-> "RecursionError", val |-> 0]

Frame(low, high) == [low |-> low, high |-> high, pi |-> 0, at |-> "enter"]

\* The frames under the outermost quicksort frame: <module> and processFile
\* in the batch program, the one calling frame otherwise.
CallerDepth == IF entry = "__main__" THEN 2 ELSE 1

Depth == CallerDepth + Len(stack)

CanCall == Depth + 1 < RecursionLimit

Top == stack[Len(stack)]

Pop == SubSeq(stack, 1, Len(stack) - 1)

SetTop(f) == [stack EXCEPT ![Len(stack)] = f]

(***************************************************************************)
(* The two folders.  A folder is [exists, files]; files maps each file     *)
(* name (a string) to the file's lines.  An input line keeps its line      *)
(* break, as "for line in file" yields it.                                 *)
(***************************************************************************)
NoFiles == [f \in {} |-> <<>>]

NoFolder == [exists |-> FALSE, files |-> NoFiles]

Folder(files) == [exists |-> TRUE, files |-> files]

\* InputFolderExists with the check of line 215 left out
InputFolderAssumed == TRUE

\* os.path.exists(input_folder)
InputFolderExists == inputDir.exists

\* os.listdir(input_folder); it raises on a missing folder, and __main__
\* has exited before the call then.
ListDir(dir) == IF dir.exists THEN DOMAIN dir.files ELSE {}

EndsWith(s, suffix) ==
    /\ Len(s) >= Len(suffix)
    /\ SubSeq(s, Len(s) - Len(suffix) + 1, Len(s)) = suffix

DotTxt == <<".", "t", "x", "t">>

ResultsSuffix ==
    <<".", "t", "x", "t", "_", "r", "e", "s", "u", "l", "t", "s", ".", "t", "x", "t">>

\* basename = filename[:-4]; the output file is f"{basename}.txt_results.txt"
\* in the output folder.
OutputName(f) == SubSeq(f, 1, Len(f) - 4) \o ResultsSuffix

(***************************************************************************)
(* What the program prints, in order.                                      *)
(***************************************************************************)
Msg(text, about) == [text |-> text, about |-> about]

(***************************************************************************)
(* processFile returns to the loop of __main__ (lines 244-255), which      *)
(* prints "Processed {filename}:" and counts the file whatever the call    *)
(* returned.  result is "(0, 0)" (a failure) or "measured".                *)
(***************************************************************************)
ReturnToMain(messages, result) ==
    /\ printed' = printed \o messages \o <<Msg("Processed", filename)>>
    /\ calls' = [calls EXCEPT ![filename] = result]
    /\ total_files_processed' = total_files_processed + 1
    /\ pc' = "loop"
    /\ pos' = 0
    /\ unique_dict' = <<>>
    /\ integers' = <<>>
    /\ arr0' = <<>>
    /\ stack' = <<>>
    /\ wr' = 0
    /\ UNCHANGED <<entry, line, ret, inputDir, outputDir0, todo, filename, exitCode>>

\* An except clause of processFile or readUniqueIntegers: print, return (0, 0).
FailFile(text, about) ==
    /\ ReturnToMain(<<Msg(text, about)>>, "(0, 0)")
    /\ UNCHANGED outputDir

\* The process ends: sys.exit(code), the end of the script, or an exception
\* that nothing catches.
Exit(messages, code) ==
    /\ printed' = printed \o messages
    /\ exitCode' = code
    /\ pc' = "exit"
    /\ UNCHANGED <<entry, line, ret, inputDir, outputDir, outputDir0, todo,
                   filename, total_files_processed, calls, pos, unique_dict,
                   integers, arr0, stack, wr>>

\* Unexpected without the except clause of line 44: the exception leaves
\* processFile and ends the program with a traceback.
Uncaught(e) == Exit(<<Msg("Traceback", e.kind)>>, 1)

\* except Exception as e (line 44): whatever is raised inside the try block
\* and is no IOError caught before.
Unexpected(e) == FailFile("Unexpected error processing file", e.kind)

(***************************************************************************)
(* __main__, lines 211-225: the two folders.  fault: os.makedirs raises    *)
(* OSError.                                                                *)
(***************************************************************************)
MainStart(fault) ==
    /\ entry = "__main__"
    /\ pc = "main"
    /\ IF ~InputFolderExists
       THEN Exit(<<Msg("Error: Input folder does not exist", "inputs")>>, 1)
       ELSE IF ~outputDir.exists /\ fault
       THEN Exit(<<Msg("Error creating output directory", "outputs")>>, 1)
       ELSE /\ outputDir' = IF outputDir.exists THEN outputDir ELSE Folder(NoFiles)
            /\ todo' = ListDir(inputDir)
            /\ pc' = "loop"
            /\ UNCHANGED <<entry, line, ret, inputDir, outputDir0, filename,
                           total_files_processed, exitCode, printed, calls, pos,
                           unique_dict, integers, arr0, stack, wr>>

(***************************************************************************)
(* __main__, lines 232-261: the loop over os.listdir, whose order is       *)
(* arbitrary.                                                              *)
(***************************************************************************)
MainNextFile ==
    /\ entry = "__main__"
    /\ pc = "loop"
    /\ \E f \in todo :
          /\ todo' = todo \ {f}
          /\ IF EndsWith(f, DotTxt)
             THEN /\ filename' = f
                  /\ calls' = (f :> "called") @@ calls
                  /\ pc' = "processFile"
             ELSE UNCHANGED <<filename, calls, pc>>
    /\ UNCHANGED <<entry, line, ret, inputDir, outputDir, outputDir0,
                   total_files_processed, exitCode, printed, pos, unique_dict,
                   integers, arr0, stack, wr>>

MainDone ==
    /\ entry = "__main__"
    /\ pc = "loop"
    /\ todo = {}
    /\ Exit(<<Msg("Processed files", total_files_processed)>>, 0)

(***************************************************************************)
(* processFile, lines 16-26: the output file's folder.  In the batch       *)
(* program output_dir is the output folder.  fault: os.makedirs raises.    *)
(***************************************************************************)
PfStart(fault) ==
    /\ pc = "processFile"
    /\ IF ~outputDir.exists /\ fault
       THEN FailFile("Error creating directory", "outputs")
       ELSE /\ outputDir' = IF outputDir.exists THEN outputDir ELSE Folder(NoFiles)
            /\ pc' = "open_input"
            /\ UNCHANGED <<entry, line, ret, inputDir, outputDir0, todo, filename,
                           total_files_processed, exitCode, printed, calls, pos,
                           unique_dict, integers, arr0, stack, wr>>

(***************************************************************************)
(* readUniqueIntegers.  fault: open or the read of the next line raises    *)
(* IOError; the except clause of line 72 prints and returns None, and      *)
(* processFile returns (0, 0) at line 32.                                  *)
(***************************************************************************)
\* Keep written "if integer:", which drops 0 with None
KeepTruthy(integer) == integer.kind = "int" /\ integer.val # 0

\* if integer is not None
Keep(integer) == integer.kind = "int"

\* DictSet on a list instead of a dictionary: every value is appended
ListAppend(d, k) == Append(d, k)

\* unique_dict[integer] = True: a dictionary keeps its keys in the order of
\* their first insertion.
DictSet(d, k) == IF \E n \in 1..Len(d) : d[n] = k THEN d ELSE Append(d, k)

ReadFailure == FailFile("Error reading input file", filename)

ReadOpen(fault) ==
    /\ pc = "open_input"
    /\ IF fault \/ filename \notin DOMAIN inputDir.files
       THEN ReadFailure
       ELSE /\ unique_dict' = <<>>
            /\ pos' = 0
            /\ pc' = "read"
            /\ UNCHANGED <<entry, line, ret, inputDir, outputDir, outputDir0, todo,
                           filename, total_files_processed, exitCode, printed,
                           calls, integers, arr0, stack, wr>>

ReadLine(fault) ==
    /\ pc = "read"
    /\ pos < Len(inputDir.files[filename])
    /\ IF fault THEN ReadFailure
       ELSE LET integer == ProcessLine(inputDir.files[filename][pos + 1])
            IN  IF integer.kind = "ValueError" THEN Unexpected(integer)
                ELSE /\ unique_dict' = IF Keep(integer)
                                       THEN DictSet(unique_dict, integer.val)
                                       ELSE unique_dict
                     /\ pos' = pos + 1
                     /\ UNCHANGED <<entry, pc, line, ret, inputDir, outputDir,
                                    outputDir0, todo, filename,
                                    total_files_processed, exitCode, printed,
                                    calls, integers, arr0, stack, wr>>

\* return list(unique_dict.keys()), and line 34: the call of quicksort
ReadDone ==
    /\ pc = "read"
    /\ pos = Len(inputDir.files[filename])
    /\ integers' = unique_dict
    /\ unique_dict' = <<>>
    /\ pos' = 0
    /\ stack' = <<Frame(0, Len(unique_dict) - 1)>>
    /\ pc' = "sort"
    /\ UNCHANGED <<entry, line, ret, inputDir, outputDir, outputDir0, todo,
                   filename, total_files_processed, exitCode, printed, calls,
                   arr0, wr>>

(***************************************************************************)
(* One step of quicksort: the innermost frame partitions and makes its     *)
(* first recursive call, makes its second, or returns.                     *)
(***************************************************************************)
\* The outermost call returns arr: to processFile (line 36 is next), or to
\* the caller of the function under study.
QsReturn ==
    /\ stack' = <<>>
    /\ IF entry = "__main__"
       THEN /\ pc' = "open_output"
            /\ UNCHANGED ret
       ELSE /\ pc' = "returned"
            /\ ret' = [kind |-> "list", val |-> 0]
    /\ UNCHANGED <<entry, line, inputDir, outputDir, outputDir0, todo, filename,
                   total_files_processed, exitCode, printed, calls, pos,
                   unique_dict, integers, arr0, wr>>

\* RecursionError leaves every frame of quicksort: processFile catches it at
\* line 44; a direct caller sees it raised.
QsRaise ==
    IF entry = "__main__"
    THEN Unexpected(RecursionError)
    ELSE /\ pc' = "returned"
         /\ ret' = RecursionError
         /\ stack' = <<>>
         /\ UNCHANGED <<entry, line, inputDir, outputDir, outputDir0, todo,
                        filename, total_files_processed, exitCode, printed,
                        calls, pos, unique_dict, integers, arr0, wr>>

QsInside(newIntegers, newStack) ==
    /\ integers' = newIntegers
    /\ stack' = newStack
    /\ UNCHANGED <<entry, pc, line, ret, inputDir, outputDir, outputDir0, todo,
                   filename, total_files_processed, exitCode, printed, calls,
                   pos, unique_dict, arr0, wr>>

\* quicksort(arr, low, pi - 1): the range of the first recursive call
LeftCall(f, pi) == Frame(f.low, pi - 1)

\* quicksort(arr, pi + 1, high): the range of the second recursive call
RightCall(f) == Frame(f.pi + 1, f.high)

QsStep ==
    /\ pc = "sort"
    /\ stack # <<>>
    /\ LET f == Top
       IN  CASE f.at = "enter" /\ f.low < f.high ->
                    \* partition and quicksort are called from the same frame
                    IF ~CanCall THEN QsRaise
                    ELSE LET r == Partition(integers, f.low, f.high)
                         IN  QsInside(r.arr,
                                      Append(SetTop([f EXCEPT !.pi = r.pi, !.at = "left"]),
                                             LeftCall(f, r.pi)))
             [] f.at = "enter" /\ ~(f.low < f.high) ->
                    IF Len(stack) = 1 THEN QsReturn ELSE QsInside(integers, Pop)
             [] f.at = "left" ->
                    IF ~CanCall THEN QsRaise
                    ELSE QsInside(integers,
                                  Append(SetTop([f EXCEPT !.at = "right"]), RightCall(f)))
             [] f.at = "right" ->
                    IF Len(stack) = 1 THEN QsReturn ELSE QsInside(integers, Pop)

(***************************************************************************)
(* processFile, lines 36-51: the output file.  open(path, 'w') creates the *)
(* file or empties an existing one.  fault: open, a write or the close at  *)
(* the end of the with block raises IOError.                               *)
(***************************************************************************)
WriteFailure == FailFile("Error writing to output file", OutputName(filename))

\* str(integer) + "\n"
OutputLine(integer) == StrOf(integer) \o <<"\n">>

WriteOpen(fault) ==
    /\ pc = "open_output"
    /\ IF fault \/ ~outputDir.exists
       THEN WriteFailure
       ELSE /\ outputDir' = [outputDir EXCEPT
                               !.files = (OutputName(filename) :> <<>>) @@ @]
            /\ wr' = 0
            /\ pc' = "write"
            /\ UNCHANGED <<entry, line, ret, inputDir, outputDir0, todo, filename,
                           total_files_processed, exitCode, printed, calls, pos,
                           unique_dict, integers, arr0, stack>>

WriteLine(fault) ==
    /\ pc = "write"
    /\ wr < Len(integers)
    /\ IF fault THEN WriteFailure
       ELSE /\ outputDir' = [outputDir EXCEPT
                               !.files[OutputName(filename)] =
                                   Append(@, OutputLine(integers[wr + 1]))]
            /\ wr' = wr + 1
            /\ UNCHANGED <<entry, pc, line, ret, inputDir, outputDir0, todo,
                           filename, total_files_processed, exitCode, printed,
                           calls, pos, unique_dict, integers, arr0, stack>>

WriteClose(fault) ==
    /\ pc = "write"
    /\ wr = Len(integers)
    /\ IF fault THEN WriteFailure
       ELSE /\ ReturnToMain(<<>>, "measured")
            /\ UNCHANGED outputDir

(***************************************************************************)
(* The batch program: python3 uniqueint.py with a folder "inputs" that is  *)
(* missing, or holds a.txt (any MaxLines lines out of SampleLines), b.txt  *)
(* (ScenarioLines) and n.md, and a folder "outputs" that is missing, empty *)
(* or holds results of an earlier run.                                     *)
(***************************************************************************)
MaxLines == 3

SeqsUpTo(S, n) == UNION {[1..k -> S] : k \in 0..n}

SampleLines ==
    { <<"3", "\n">>, <<"1", "\n">>, <<"0", "\n">>, <<"a", "\n">>, <<"U+00B2", "\n">> }

ScenarioLines ==
    << <<"3", "\n">>, <<"1", "\n">>, <<"3", "\n">>, <<"a", "b", "c", "\n">>, <<"\n">>,
       <<"-", "1", "0", "2", "3", "\n">>, <<"1", "0", "2", "5", "\n">>,
       <<"2", "0", "0", "0", "0", "0", "0", "0", "0", "0", "\n">> >>

FileA == <<"a", ".", "t", "x", "t">>
FileB == <<"b", ".", "t", "x", "t">>
FileN == <<"n", ".", "m", "d">>

StaleLines == << <<"7", "\n">>, <<"8", "\n">> >>

StaleResults == (OutputName(FileA) :> StaleLines) @@ (OutputName(FileB) :> StaleLines)

NoCalls == [f \in {} |-> "called"]

\* Nothing of processFile is running.
NoCall ==
    /\ pos = 0
    /\ unique_dict = <<>>
    /\ integers = <<>>
    /\ arr0 = <<>>
    /\ stack = <<>>
    /\ wr = 0

NotStarted ==
    /\ ret = None
    /\ outputDir0 = outputDir
    /\ todo = {}
    /\ filename = <<>>
    /\ total_files_processed = 0
    /\ exitCode = -1
    /\ printed = <<>>
    /\ calls = NoCalls

Init ==
    /\ entry = "__main__"
    /\ pc = "main"
    /\ line = <<>>
    /\ inputDir \in {NoFolder} \cup
          { Folder((FileA :> a) @@ (FileB :> ScenarioLines) @@ (FileN :> <<>>)) :
              a \in SeqsUpTo(SampleLines, MaxLines) }
    /\ outputDir \in {NoFolder, Folder(NoFiles), Folder(StaleResults)}
    /\ NotStarted
    /\ NoCall

Next ==
    \E fault \in BOOLEAN :
        \/ MainStart(fault)
        \/ MainNextFile
        \/ MainDone
        \/ PfStart(fault)
        \/ ReadOpen(fault)
        \/ ReadLine(fault)
        \/ ReadDone
        \/ QsStep
        \/ WriteOpen(fault)
        \/ WriteLine(fault)
        \/ WriteClose(fault)

Spec == Init /\ [][Next]_vars

(***************************************************************************)
(* The batch program where no input or output operation fails, on one file *)
(* a.txt of n lines: 1, 2, ..., n ascending, or the same lines in another  *)
(* order, k * 265 mod (n + 1) for k = 1, ..., n (a permutation of 1..n, as *)
(* 265 and n + 1 = 999 have no common factor).  n is the length of the     *)
(* shortest sorted list on which quicksort, called by processFile, reaches *)
(* the interpreter's recursion limit.                                      *)
(***************************************************************************)
NumberLine(v) == StrOf(v) \o <<"\n">>

AscendingLines(n) == [k \in 1..n |-> NumberLine(k)]

ShuffledLines(n) == [k \in 1..n |-> NumberLine((k * 265) % (n + 1))]

InitDeep ==
    /\ entry = "__main__"
    /\ pc = "main"
    /\ line = <<>>
    /\ inputDir \in { Folder(FileA :> AscendingLines(RecursionLimit - 2)),
                      Folder(FileA :> ShuffledLines(RecursionLimit - 2)) }
    /\ outputDir = NoFolder
    /\ NotStarted
    /\ NoCall

NextDeep ==
    \/ MainStart(FALSE)
    \/ MainNextFile
    \/ MainDone
    \/ PfStart(FALSE)
    \/ ReadOpen(FALSE)
    \/ ReadLine(FALSE)
    \/ ReadDone
    \/ QsStep
    \/ WriteOpen(FALSE)
    \/ WriteLine(FALSE)
    \/ WriteClose(FALSE)

SpecDeep == InitDeep /\ [][NextDeep]_vars

(***************************************************************************)
(* One function called on its own.                                         *)
(***************************************************************************)
NoProgram ==
    /\ inputDir = NoFolder
    /\ outputDir = NoFolder
    /\ NotStarted

\* processLine(line): every line of at most MaxLineLen characters of Alphabet
MaxLineLen == 5

Alphabet == {" ", "\t", "\n", "+", "-", "0", "1", "2", "3", "4", "5", "a",
             "U+0663", "U+00B2"}

InitLine ==
    /\ entry = "processLine"
    /\ pc = "processLine"
    /\ NoProgram
    /\ NoCall
    /\ line \in SeqsUpTo(Alphabet, MaxLineLen)

CallProcessLine ==
    /\ pc = "processLine"
    /\ ret' = ProcessLine(line)
    /\ pc' = "returned"
    /\ UNCHANGED <<entry, line, inputDir, outputDir, outputDir0, todo, filename,
                   total_files_processed, exitCode, printed, calls, pos,
                   unique_dict, integers, arr0, stack, wr>>

NextLine == CallProcessLine

SpecLine == InitLine /\ [][NextLine]_vars

\* quicksort(arr, 0, len(arr) - 1): every list of at most MaxListLen values of
\* 0..MaxSortValue, and the sorted list 1, 2, ..., RecursionLimit - 1.
MaxListLen == 5
MaxSortValue == 2

SmallLists == SeqsUpTo(0..MaxSortValue, MaxListLen)

LongSortedList == [k \in 1..(RecursionLimit - 1) |-> k]

InitSort ==
    /\ entry = "quicksort"
    /\ pc = "sort"
    /\ line = <<>>
    /\ NoProgram
    /\ pos = 0
    /\ unique_dict = <<>>
    /\ wr = 0
    /\ integers \in SmallLists \cup {LongSortedList}
    /\ arr0 = integers
    /\ stack = <<Frame(0, Len(integers) - 1)>>

NextSort == QsStep

SpecSort == InitSort /\ [][NextSort]_vars

\* partition(arr, low, high): every such list and 0 <= low < high < len(arr)
InitPartition ==
    /\ entry = "partition"
    /\ pc = "partition"
    /\ line = <<>>
    /\ NoProgram
    /\ pos = 0
    /\ unique_dict = <<>>
    /\ wr = 0
    /\ integers \in SmallLists
    /\ arr0 = integers
    /\ \E low \in 0..(MaxListLen + 1), high \in 0..(MaxListLen + 1) :
          /\ low < high
          /\ high < Len(integers)
          /\ stack = <<Frame(low, high)>>

CallPartition ==
    /\ pc = "partition"
    /\ LET r == Partition(integers, Top.low, Top.high)
       IN  /\ integers' = r.arr
           /\ ret' = Value(r.pi)
    /\ pc' = "returned"
    /\ UNCHANGED <<entry, line, inputDir, outputDir, outputDir0, todo, filename,
                   total_files_processed, exitCode, printed, calls, pos,
                   unique_dict, arr0, stack, wr>>

NextPartition == CallPartition

SpecPartition == InitPartition /\ [][NextPartition]_vars

(***************************************************************************)
(* What the properties below speak of.                                     *)
(***************************************************************************)
Range(q) == {q[k] : k \in 1..Len(q)}

Occurrences(q, x) == Cardinality({k \in 1..Len(q) : q[k] = x})

\* q is p in another order
IsPermutation(p, q) ==
    /\ Len(p) = Len(q)
    /\ \A k \in 1..Len(p) : Occurrences(p, p[k]) = Occurrences(q, p[k])

IsAscending(q) == \A k \in 1..(Len(q) - 1) : q[k] <= q[k + 1]

\* The .txt files of the input folder
TxtFiles == {f \in ListDir(inputDir) : EndsWith(f, DotTxt)}

\* name.txt_results.txt
ResultsName(f) == f \o <<"_", "r", "e", "s", "u", "l", "t", "s", ".", "t", "x", "t">>

Called(f) == f \in DOMAIN calls

Succeeded(f) == Called(f) /\ calls[f] = "measured"

Failed(f) == Called(f) /\ calls[f] = "(0, 0)"

HasResults(f) == ResultsName(f) \in DOMAIN outputDir.files

Results(f) == outputDir.files[ResultsName(f)]

\* The value of a string of the digits 0..9, by place
RECURSIVE PlaceValue(_)
PlaceValue(d) ==
    IF d = <<>> THEN 0
    ELSE 10 * PlaceValue(SubSeq(d, 1, Len(d) - 1))
         + (CHOOSE n \in 0..9 : DigitChar(n) = d[Len(d)])

\* A string that is an optional sign and one or more of the digits 0..9
IsDecimalLiteral(s) ==
    /\ s # <<>>
    /\ LET d == IF s[1] \in {"+", "-"} THEN Tail(s) ELSE s
       IN  d # <<>> /\ \A k \in 1..Len(d) : d[k] \in AsciiDigits

LiteralValue(s) ==
    IF s[1] = "-" THEN 0 - PlaceValue(Tail(s))
    ELSE IF s[1] = "+" THEN PlaceValue(Tail(s))
    ELSE PlaceValue(s)

\* l without its leading and trailing spaces, tabs and line breaks
Trimmed(l) ==
    LET inner == {k \in 1..Len(l) : l[k] \notin {" ", "\t", "\n"}}
    IN  IF inner = {} THEN <<>>
        ELSE SubSeq(l, CHOOSE k \in inner : \A m \in inner : k <= m,
                       CHOOSE k \in inner : \A m \in inner : k >= m)

\* An output line: a decimal integer, no sign unless negative, and a line break
IsOutputLine(l) ==
    /\ Len(l) >= 2
    /\ l[Len(l)] = "\n"
    /\ LET s == SubSeq(l, 1, Len(l) - 1)
       IN  IsDecimalLiteral(s) /\ s[1] # "+"

OutputValue(l) == LiteralValue(SubSeq(l, 1, Len(l) - 1))

\* The values processLine accepts among the lines of a file
AcceptedValues(lines) ==
    {ProcessLine(lines[k]).val :
        k \in {n \in 1..Len(lines) : ProcessLine(lines[n]).kind = "int"}}

(***************************************************************************)
(* C1: for every input file processFile has processed successfully, the    *)
(* output file holds integers only, each in [-1023, 1024], and the set of  *)
(* these integers is exactly the set of values processLine accepts among   *)
(* the input lines; the lines 3, 1, 3, abc, empty, -1023, 1025, 2000000000 *)
(* (b.txt) give the output -1023, 1, 3.                                    *)
(***************************************************************************)
C1_OutputIsAcceptedSet ==
    \A f \in DOMAIN calls :
        Succeeded(f) =>
            /\ HasResults(f)
            /\ \A k \in 1..Len(Results(f)) :
                  /\ IsOutputLine(Results(f)[k])
                  /\ OutputValue(Results(f)[k]) >= -1023
                  /\ OutputValue(Results(f)[k]) <= 1024
            /\ {OutputValue(l) : l \in Range(Results(f))}
                  = AcceptedValues(inputDir.files[f])
            /\ inputDir.files[f] = ScenarioLines =>
                  Results(f) = << <<"-", "1", "0", "2", "3", "\n">>, <<"1", "\n">>,
                                  <<"3", "\n">> >>

\* a.txt held two accepted values, 0 among them, and a line that is none,
\* and both files were processed successfully.
C1_Witness ==
    /\ pc = "exit"
    /\ Succeeded(FileA)
    /\ Succeeded(FileB)
    /\ AcceptedValues(inputDir.files[FileA]) = {0, 3}
    /\ <<"a", "\n">> \in Range(inputDir.files[FileA])

(***************************************************************************)
(* C2: for every input file processFile has processed successfully, the    *)
(* integers of the output file are strictly ascending line over line.      *)
(***************************************************************************)
C2_OutputStrictlyAscending ==
    \A f \in DOMAIN calls :
        Succeeded(f) =>
            /\ HasResults(f)
            /\ \A k \in 1..(Len(Results(f)) - 1) :
                  OutputValue(Results(f)[k]) < OutputValue(Results(f)[k + 1])

\* a.txt held 3, 1, 3: a value twice, and not in ascending order.
C2_Witness ==
    /\ pc = "exit"
    /\ Succeeded(FileA)
    /\ inputDir.files[FileA] = << <<"3", "\n">>, <<"1", "\n">>, <<"3", "\n">> >>
    /\ Len(Results(FileA)) = 2

(***************************************************************************)
(* C3: processLine never raises: whatever the line, the call produces an   *)
(* integer or None.                                                        *)
(***************************************************************************)
C3_ProcessLineNeverRaises ==
    pc = "returned" => ret.kind \in {"int", "None"}

(***************************************************************************)
(* C4: processLine(line) yields the integer v if and only if the line,     *)
(* without its leading and trailing spaces, tabs and line breaks, is an    *)
(* optional "+" or "-" and one or more of the digits 0..9, of value v with *)
(* -1023 <= v <= 1024; otherwise it yields None.                           *)
(***************************************************************************)
C4_ProcessLineContract ==
    pc = "returned" =>
        LET s == Trimmed(line)
        IN  IF IsDecimalLiteral(s) /\ LiteralValue(s) >= -1023 /\ LiteralValue(s) <= 1024
            THEN ret = Value(LiteralValue(s))
            ELSE ret = None

\* C4 on the lines that hold no digit other than 0..9: there processLine
\* does what C4 says (checked under SpecLine).
C4_OnAsciiDigits ==
    (\A k \in 1..Len(line) : line[k] \notin UnicodeDecimalDigits \cup UnicodeOtherDigits)
        => C4_ProcessLineContract

(***************************************************************************)
(* C5: after a failed processFile the output path holds what it held       *)
(* before the call: no newly created file, no emptied file, no part of the *)
(* result lines.                                                           *)
(***************************************************************************)
C5_NoOutputOnFailure ==
    \A f \in DOMAIN calls :
        Failed(f) =>
            /\ HasResults(f) <=> ResultsName(f) \in DOMAIN outputDir0.files
            /\ HasResults(f) => Results(f) = outputDir0.files[ResultsName(f)]

(***************************************************************************)
(* C6: in batch mode, once the two folders are there, the run ends with    *)
(* every .txt file of the input folder handed to processFile, whatever     *)
(* failed for another file, and every file processed without a failure has *)
(* its output file name.txt_results.txt in the output folder.              *)
(***************************************************************************)
C6_BatchProcessesEveryFile ==
    (pc = "exit" /\ inputDir.exists /\ outputDir.exists) =>
        /\ exitCode = 0
        /\ DOMAIN calls = TxtFiles
        /\ total_files_processed = Cardinality(TxtFiles)
        /\ \A f \in TxtFiles :
              /\ Succeeded(f) \/ Failed(f)
              /\ Succeeded(f) => HasResults(f)

\* a.txt failed on an exception that is no IOError, and b.txt, whether it
\* came before or after, has its results.
C6_Witness ==
    /\ pc = "exit"
    /\ Failed(FileA)
    /\ \E k \in 1..Len(printed) :
          printed[k] = Msg("Unexpected error processing file", "ValueError")
    /\ Succeeded(FileB)
    /\ HasResults(FileB)

(***************************************************************************)
(* C7: what processFile makes of a file depends only on the set of values  *)
(* its lines are accepted with, not on their order or number: unless an    *)
(* input or output operation failed, the call succeeds and the output file *)
(* holds that set's values in ascending order, so any two files holding    *)
(* the same lines in two orders get the same output.                       *)
(***************************************************************************)
\* The messages about an input or output operation that failed for f
IOFailures(f) ==
    { Msg("Error creating directory", "outputs"),
      Msg("Error reading input file", f),
      Msg("Error writing to output file", ResultsName(f)) }

\* The values of S in ascending order, one output line each
AscendingOutput(S) ==
    [k \in 1..Cardinality(S) |->
        NumberLine(CHOOSE v \in S : Cardinality({u \in S : u < v}) = k - 1)]

C7_OrderIndependent ==
    \A f \in DOMAIN calls :
        (calls[f] # "called" /\ Range(printed) \cap IOFailures(f) = {}) =>
            /\ Succeeded(f)
            /\ Results(f) = AscendingOutput(AcceptedValues(inputDir.files[f]))

\* The file whose 998 lines are not in ascending order has been processed
\* successfully (reached under SpecDeep).
C7_OtherOrderSucceeds ==
    /\ Succeeded(FileA)
    /\ inputDir.files[FileA] = ShuffledLines(RecursionLimit - 2)
    /\ IsPermutation(inputDir.files[FileA], AscendingLines(RecursionLimit - 2))
    /\ Results(FileA) = AscendingLines(RecursionLimit - 2)

(***************************************************************************)
(* C8: in batch mode with no input folder the process reports it and       *)
(* exits with status 1, and does nothing else: the output folder is as it  *)
(* was, no file is handed to processFile.                                  *)
(***************************************************************************)
C8_MissingInputFolder ==
    ~inputDir.exists =>
        /\ pc \in {"main", "exit"}
        /\ outputDir = outputDir0
        /\ DOMAIN calls = {}
        /\ pc = "exit" =>
              /\ exitCode = 1
              /\ printed = <<Msg("Error: Input folder does not exist", "inputs")>>

\* No input folder, no output folder, and the process has exited.
C8_Witness ==
    /\ ~inputDir.exists
    /\ ~outputDir0.exists
    /\ pc = "exit"

(***************************************************************************)
(* C9: for every list arr, quicksort(arr, 0, len(arr) - 1) ends by         *)
(* returning, with arr sorted ascending and a permutation of what it was;  *)
(* and every recursive call is on a range inside its caller's and strictly *)
(* shorter.                                                                *)
(***************************************************************************)
RangeLen(f) == IF f.high < f.low THEN 0 ELSE f.high - f.low + 1

\* Frame k + 1 is a call made by frame k.
C9_CallsShrink ==
    \A k \in 1..(Len(stack) - 1) :
        /\ RangeLen(stack[k + 1]) < RangeLen(stack[k])
        /\ RangeLen(stack[k + 1]) > 0 =>
              /\ stack[k].low <= stack[k + 1].low
              /\ stack[k + 1].high <= stack[k].high

C9_QuicksortSorts ==
    /\ C9_CallsShrink
    /\ pc = "returned" =>
          /\ ret.kind = "list"
          /\ IsAscending(integers)
          /\ IsPermutation(arr0, integers)

\* C9 on the lists of at most MaxListLen elements (checked under SpecSort).
C9_OnShortLists ==
    Len(arr0) <= MaxListLen => C9_QuicksortSorts

(***************************************************************************)
(* C10: partition(arr, low, high) with 0 <= low < high < len(arr) returns  *)
(* p with low <= p <= high; afterwards arr[p] is the pivot (what arr[high] *)
(* was), arr[low..p-1] is <= pivot, arr[p+1..high] is > pivot,             *)
(* arr[low..high] is a permutation of what it was and the rest of arr is   *)
(* unchanged.                                                              *)
(***************************************************************************)
C10_PartitionPostcondition ==
    (entry = "partition" /\ pc = "returned") =>
        LET low   == stack[1].low
            high  == stack[1].high
            p     == ret.val
            pivot == arr0[high + 1]
        IN  /\ low <= p /\ p <= high
            /\ Len(integers) = Len(arr0)
            /\ integers[p + 1] = pivot
            /\ \A k \in low..(p - 1) : integers[k + 1] <= pivot
            /\ \A k \in (p + 1)..high : integers[k + 1] > pivot
            /\ IsPermutation(SubSeq(arr0, low + 1, high + 1),
                             SubSeq(integers, low + 1, high + 1))
            /\ \A k \in 0..(Len(arr0) - 1) :
                  (k < low \/ k > high) => integers[k + 1] = arr0[k + 1]

\* A range strictly inside the list, with the pivot's value a second time in
\* it, a smaller and a larger value, and the pivot placed strictly inside.
C10_Witness ==
    /\ entry = "partition"
    /\ pc = "returned"
    /\ stack[1].low > 0
    /\ stack[1].high < Len(arr0) - 1
    /\ stack[1].low < ret.val
    /\ ret.val < stack[1].high
    /\ \E k \in stack[1].low..(stack[1].high - 1) : arr0[k + 1] = arr0[stack[1].high + 1]
    /\ integers # arr0

=============================================================================
